---- MODULE Spec2Model ----
(***************************************************************************)
(* A model of the PlantIdentifier React component                          *)
(* (src/src/PlantIdentifier.jsx): its five state fields, the three user    *)
(* actions the rendered tree offers (file selection, Try Again, reset),    *)
(* the preview FileReader completions and the asynchronous steps of        *)
(* identifyPlant (file encoding, HTTP call, parsing of the completion).    *)
(*                                                                         *)
(* Conventions.  A nullable JavaScript value is the empty sequence NULL    *)
(* when it is null and a non-empty sequence otherwise.  A string built by  *)
(* concatenation is the sequence of its pieces, so that a prefix added by  *)
(* a template literal is visible in the value.                             *)
(***************************************************************************)
EXTENDS Naturals, Sequences, FiniteSets

VARIABLES
    GEMINI_API_KEY,   \* process.env.REACT_APP_GEMINI_API_KEY, fixed per run
    selectedImage,    \* useState(null): NULL or <<file>>
    imagePreview,     \* useState(null): NULL or the data URI of a file
    plantInfo,        \* useState(null): NULL or <<decoded payload>>
    loading,          \* useState(false)
    error,            \* useState(null): NULL or a message (its pieces)
    fileInput,        \* the file held by the mounted <input type="file">
    readers,          \* preview FileReaders started by handleImageUpload
    attempts,         \* identifyPlant invocations, in start order
    encodeCalls,      \* number of convertImageToBase64 calls so far
    fetchCalls,       \* number of fetch calls so far
    last              \* the handler or callback that ran last, and what it did

vars == <<GEMINI_API_KEY, selectedImage, imagePreview, plantInfo, loading,
          error, fileInput, readers, attempts, encodeCalls, fetchCalls, last>>

----------------------------------------------------------------------------
(* Bounds of the model *)

MaxAttempts == 2

----------------------------------------------------------------------------
(* Values *)

NULL == <<>>

Undefined == "<undefined>"

Files == {"A", "B"}

NoFile == "<no file>"

ApiKeys == {Undefined, "", "AIza-key"}

Truthy(v) == v # Undefined /\ v # ""

(* reader.result of readAsDataURL(file) *)
DataURL(file) == <<"data:image;base64", ",", file>>

FailPrefix == "Failed to identify plant: "

ConfigMsg == <<"Gemini API key is not configured. Please add REACT_APP_GEMINI_API_KEY to your .env file">>

NotBlobMsg == <<"Failed to execute 'readAsDataURL' on 'FileReader': parameter 1 is not of type 'Blob'.">>

ReadErrorMsg == <<"undefined">>

FetchFailedMsg == <<"Failed to fetch">>

BadBodyMsg == <<"Unexpected end of JSON input">>

NoResponseMsg == <<"No response from Gemini API">>

ParseFailedMsg == <<"Failed to parse API response. The response may not be valid JSON.">>

NullPayloadMsg == <<"Cannot read properties of null (reading 'error')">>

IncompleteMsg == <<"Incomplete plant data received from API">>

CouldNotIdentify == "Could not identify plant. Please upload a clearer image of a plant."

StatusText(status) ==
    CASE status = 200 -> "200"
      [] status = 429 -> "429"

(* Decoded completions: JSON null, or an object with the three fields the
   code reads (a non-object JSON value reads as an object without them).
   Every field is absent or present, and each is once the empty string. *)
Obj(e, n, sn) == [kind |-> "object", error |-> e, name |-> n, scientificName |-> sn]

Payloads ==
    {Obj(e, n, sn) : e \in {Undefined, CouldNotIdentify},
                     n \in {Undefined, "Monstera Deliciosa"},
                     sn \in {Undefined, "Monstera deliciosa"}}
    \cup {Obj("", "Monstera Deliciosa", "Monstera deliciosa"),
          Obj(Undefined, "", "Monstera deliciosa"),
          Obj(Undefined, "Monstera Deliciosa", "")}
    \cup {[kind |-> "null", error |-> Undefined, name |-> Undefined,
           scientificName |-> Undefined]}

(* No decoded completion: the attempt did not get as far as JSON.parse. *)
NoPayload ==
    [kind |-> "none", error |-> Undefined, name |-> Undefined,
     scientificName |-> Undefined]

(* A completion text is a sequence of tokens: whitespace, the two code
   fence markers, a JSON document, or text that is no JSON. *)
WS == [t |-> "ws", v |-> NoPayload]

FenceJson == [t |-> "fence_json", v |-> NoPayload]

Fence == [t |-> "fence", v |-> NoPayload]

Junk == [t |-> "junk", v |-> NoPayload]

Doc(p) == [t |-> "doc", v |-> p]

(* The completions: every payload bare, two of them inside code fences and
   whitespace, and texts that are no JSON document. *)
Fenced ==
    {Obj(Undefined, "Monstera Deliciosa", "Monstera deliciosa"),
     Obj(CouldNotIdentify, Undefined, Undefined)}

Texts ==
    {<<Doc(p)>> : p \in Payloads}
    \cup UNION {{ <<FenceJson, Doc(p), Fence>>,
                  <<WS, Fence, Doc(p), Fence, WS>> } : p \in Fenced}
    \cup {<<Junk>>, <<Doc(CHOOSE p \in Fenced : TRUE), Junk>>, <<FenceJson, Fence>>, <<>>}

(* What the fetch call can come back with. *)
Responses ==
    {[kind |-> "reject", status |-> 0, message |-> Undefined, text |-> <<>>]}
    \cup [kind : {"status"}, status : {429},
          message : {Undefined, "Resource exhausted"}, text : {<<>>}]
    \cup {[kind |-> "badjson", status |-> 200, message |-> Undefined, text |-> <<>>],
          [kind |-> "notext", status |-> 200, message |-> Undefined, text |-> <<>>]}
    \cup [kind : {"text"}, status : {200}, message : {Undefined}, text : Texts]

----------------------------------------------------------------------------
(* The pure steps of identifyPlant *)

RECURSIVE TrimLeft(_)
TrimLeft(s) ==
    IF s # <<>> /\ Head(s).t = "ws" THEN TrimLeft(Tail(s)) ELSE s

RECURSIVE TrimRight(_)
TrimRight(s) ==
    IF s # <<>> /\ s[Len(s)].t = "ws"
    THEN TrimRight(SubSeq(s, 1, Len(s) - 1))
    ELSE s

(* String.prototype.trim *)
Trim(s) == TrimRight(TrimLeft(s))

NotFenceJson(tok) == tok.t # "fence_json"

NotFence(tok) == tok.t # "fence"

(* lines 136-139: trim, drop every fence marker, trim again *)
CleanResponse(textResponse) ==
    Trim(SelectSeq(SelectSeq(Trim(textResponse), NotFenceJson), NotFence))

(* JSON.parse succeeds exactly on a single JSON document *)
JSONParses(cleaned) == Len(cleaned) = 1 /\ cleaned[1].t = "doc"

(* The three ways identifyPlant leaves its try block. *)
Thrown(message, plantData) ==
    [kind |-> "thrown", message |-> message, plantData |-> plantData]

(* A variant of DomainError that reports through the generic failure
   message, as the catch block does. *)
DomainError_prefixed(plantData) ==
    [kind |-> "domain", message |-> <<FailPrefix, plantData.error>>,
     plantData |-> plantData]

DomainError(plantData) ==
    [kind |-> "domain", message |-> <<plantData.error>>, plantData |-> plantData]

Success(plantData) ==
    [kind |-> "success", message |-> <<>>, plantData |-> plantData]

(* line 152 *)
HasErrorField(plantData) == Truthy(plantData.error)

(* A variant of IsIncomplete that rejects only a payload lacking both fields. *)
IsIncomplete_both(plantData) ==
    ~Truthy(plantData.name) /\ ~Truthy(plantData.scientificName)

(* line 157 *)
IsIncomplete(plantData) ==
    ~Truthy(plantData.name) \/ ~Truthy(plantData.scientificName)

(* lines 152-161 *)
PayloadOutcome(plantData) ==
    IF plantData.kind = "null" THEN Thrown(NullPayloadMsg, plantData)
    ELSE IF HasErrorField(plantData) THEN DomainError(plantData)
    ELSE IF IsIncomplete(plantData) THEN Thrown(IncompleteMsg, plantData)
    ELSE Success(plantData)

(* lines 130-150 *)
CompletionOutcome(textResponse) ==
    IF textResponse = <<>> THEN Thrown(NoResponseMsg, NoPayload)
    ELSE LET cleanedResponse == CleanResponse(textResponse)
         IN  IF JSONParses(cleanedResponse)
             THEN PayloadOutcome(cleanedResponse[1].v)
             ELSE Thrown(ParseFailedMsg, NoPayload)

ResponseOk(response) == response.status \in 200..299

(* lines 108-161, from the completion of fetch on *)
ResponseOutcome(response) ==
    IF response.kind = "reject" THEN Thrown(FetchFailedMsg, NoPayload)
    ELSE IF ~ResponseOk(response)
    THEN Thrown(<<"API request failed with status ", StatusText(response.status), ": ",
                  IF Truthy(response.message) THEN response.message
                                              ELSE "Unknown error">>, NoPayload)
    ELSE IF response.kind = "badjson" THEN Thrown(BadBodyMsg, NoPayload)
    ELSE IF response.kind = "notext" THEN Thrown(NoResponseMsg, NoPayload)
    ELSE CompletionOutcome(response.text)

(* The state setters an outcome runs, in order. *)
SetError(v) == [set |-> "setError", error |-> v, plantInfo |-> NULL, loading |-> FALSE]

SetPlantInfo(v) == [set |-> "setPlantInfo", error |-> NULL, plantInfo |-> v, loading |-> FALSE]

SetLoading(v) == [set |-> "setLoading", error |-> NULL, plantInfo |-> NULL, loading |-> v]

(* lines 162-165: the catch block *)
Catch(outcome) == <<SetError(<<FailPrefix>> \o outcome.message)>>

(* lines 166-168: the finally block *)
Finally == <<SetLoading(FALSE)>>

(* A variant of Writes in which the early return of line 154 leaves the
   function without running the finally block. *)
Writes_returnSkipsFinally(outcome) ==
    CASE outcome.kind = "domain"  -> <<SetError(outcome.message)>>
      [] outcome.kind = "thrown"  -> Catch(outcome) \o Finally
      [] outcome.kind = "success" -> <<SetPlantInfo(<<outcome.plantData>>)>> \o Finally

(* lines 152-168: what each way out of the try block writes *)
Writes(outcome) ==
    CASE outcome.kind = "domain"  -> <<SetError(outcome.message)>> \o Finally
      [] outcome.kind = "thrown"  -> Catch(outcome) \o Finally
      [] outcome.kind = "success" -> <<SetPlantInfo(<<outcome.plantData>>)>> \o Finally

(* The component's state as a record, for the operators below. *)
View ==
    [selectedImage |-> selectedImage, imagePreview |-> imagePreview,
     plantInfo |-> plantInfo, loading |-> loading, error |-> error]

ApplyWrite(s, w) ==
    CASE w.set = "setError"     -> [s EXCEPT !.error = w.error]
      [] w.set = "setPlantInfo" -> [s EXCEPT !.plantInfo = w.plantInfo]
      [] w.set = "setLoading"   -> [s EXCEPT !.loading = w.loading]

RECURSIVE ApplyWrites(_, _)
ApplyWrites(s, ws) ==
    IF ws = <<>> THEN s ELSE ApplyWrites(ApplyWrite(s, Head(ws)), Tail(ws))

SetterNames(ws) == [i \in 1..Len(ws) |-> ws[i].set]

(* lines 46-47 *)
BeginIdentify(s) == [s EXCEPT !.loading = TRUE, !.error = NULL]

(* A variant of resetUpload that forgets setError(null). *)
resetUpload_keepsError(s) ==
    [s EXCEPT !.selectedImage = NULL, !.imagePreview = NULL, !.plantInfo = NULL]

(* lines 171-176 *)
resetUpload(s) ==
    [s EXCEPT !.selectedImage = NULL, !.imagePreview = NULL,
              !.plantInfo = NULL, !.error = NULL]

(* A variant of MissingKey that tests only for an absent key. *)
MissingKey_absentOnly(key) == key = Undefined

(* line 50 *)
MissingKey(key) == key = Undefined \/ key = ""

----------------------------------------------------------------------------
(* The state machine *)

Init ==
    /\ GEMINI_API_KEY \in ApiKeys
    /\ selectedImage = NULL
    /\ imagePreview = NULL
    /\ plantInfo = NULL
    /\ loading = FALSE
    /\ error = NULL
    /\ fileInput = NULL
    /\ readers = <<>>
    /\ attempts = <<>>
    /\ encodeCalls = 0
    /\ fetchCalls = 0
    /\ last = [op |-> "init", a |-> 0, settled |-> FALSE, writes |-> <<>>,
               plantData |-> NoPayload]

SetView(s) ==
    /\ selectedImage' = s.selectedImage
    /\ imagePreview' = s.imagePreview
    /\ plantInfo' = s.plantInfo
    /\ loading' = s.loading
    /\ error' = s.error

InFlight(i) == i <= Len(attempts) /\ attempts[i].pc # "done"

Settled(i) == i <= Len(attempts) /\ attempts[i].pc = "done"

(* The attempts a new selection or a reset leaves behind: they were started
   for an image that is no longer the selected one. *)
Supersede(as) ==
    [i \in 1..Len(as) |->
        IF as[i].pc # "done" THEN [as[i] EXCEPT !.stale = TRUE] ELSE as[i]]

(* A finished attempt: nothing of it is read again. *)
Done == [file |-> NULL, pc |-> "done", stale |-> FALSE]

(* An attempt leaves identifyPlant: its writes are applied to the state. *)
Settle(s, as, i, op, outcome) ==
    /\ SetView(ApplyWrites(s, Writes(outcome)))
    /\ attempts' = [as EXCEPT ![i] = Done]
    /\ last' = [op |-> op, a |-> i, settled |-> TRUE,
                writes |-> SetterNames(Writes(outcome)),
                plantData |-> outcome.plantData]

(* identifyPlant(file), lines 45-54, up to its first suspension point.  A
   missing key throws before any await.  convertImageToBase64(null) rejects
   inside the promise executor, and the rejection is handled in a microtask,
   before any other event: both settle within the calling handler. *)
identifyPlant(s, as, file, op) ==
    LET i == Len(as) + 1
        started == Append(as, [file |-> file, pc |-> "encoding", stale |-> FALSE])
    IN  /\ fetchCalls' = fetchCalls
        /\ IF MissingKey(GEMINI_API_KEY)
           THEN /\ encodeCalls' = encodeCalls
                /\ Settle(BeginIdentify(s), started, i, op, Thrown(ConfigMsg, NoPayload))
           ELSE IF file = NULL
           THEN /\ encodeCalls' = encodeCalls + 1
                /\ Settle(BeginIdentify(s), started, i, op, Thrown(NotBlobMsg, NoPayload))
           ELSE /\ encodeCalls' = encodeCalls + 1
                /\ SetView(BeginIdentify(s))
                /\ attempts' = started
                /\ last' = [op |-> op, a |-> i, settled |-> FALSE, writes |-> <<>>,
                            plantData |-> NoPayload]

(* onChange of the file input, lines 14-31.  The input is rendered only
   while imagePreview is falsy (line 199), and it raises change only when
   its file changes: to another file, or to none (files[0] undefined). *)
handleImageUpload(file) ==
    /\ imagePreview = NULL
    /\ Len(attempts) < MaxAttempts
    /\ IF file = NoFile
       THEN /\ fileInput # NULL
            /\ fileInput' = NULL
            /\ last' = [op |-> "noFile", a |-> 0, settled |-> FALSE, writes |-> <<>>,
                        plantData |-> NoPayload]
            /\ UNCHANGED <<selectedImage, imagePreview, plantInfo, loading, error,
                           readers, attempts, encodeCalls, fetchCalls>>
       ELSE /\ fileInput # <<file>>
            /\ fileInput' = <<file>>
            /\ readers' = Append(readers, [file |-> file, pending |-> TRUE])
            /\ identifyPlant([View EXCEPT !.selectedImage = <<file>>,
                                          !.error = NULL, !.plantInfo = NULL],
                             Supersede(attempts), <<file>>, "select")
    /\ UNCHANGED GEMINI_API_KEY

(* reader.onloadend of the preview reader (lines 19-23); reader.result is
   null when the read failed. *)
previewLoaded(r, ok) ==
    /\ r \in 1..Len(readers)
    /\ readers[r].pending
    /\ readers' = [readers EXCEPT ![r] = [file |-> NoFile, pending |-> FALSE]]
    /\ imagePreview' = IF ok THEN DataURL(readers[r].file) ELSE NULL
    /\ fileInput' = IF ok THEN NULL ELSE fileInput   \* a preview unmounts the input
    /\ last' = [op |-> "previewLoaded", a |-> 0, settled |-> FALSE, writes |-> <<>>,
                plantData |-> NoPayload]
    /\ UNCHANGED <<GEMINI_API_KEY, selectedImage, plantInfo, loading, error,
                   attempts, encodeCalls, fetchCalls>>

(* The Try Again button, lines 276-287: rendered with a preview, not loading,
   and an error. *)
retry ==
    /\ imagePreview # NULL
    /\ ~loading
    /\ error # NULL
    /\ Len(attempts) < MaxAttempts
    /\ identifyPlant(View, attempts, selectedImage, "retry")
    /\ UNCHANGED <<GEMINI_API_KEY, fileInput, readers>>

(* The X button, lines 253-258: rendered with a preview. *)
reset ==
    /\ imagePreview # NULL
    /\ SetView(resetUpload(View))
    /\ attempts' = Supersede(attempts)
    /\ last' = [op |-> "reset", a |-> 0, settled |-> FALSE, writes |-> <<>>,
                plantData |-> NoPayload]
    /\ UNCHANGED <<GEMINI_API_KEY, fileInput, readers, encodeCalls, fetchCalls>>

(* convertImageToBase64 resolves; the request is built and fetch is called. *)
encoded(i) ==
    /\ i \in 1..Len(attempts)
    /\ attempts[i].pc = "encoding"
    /\ attempts' = [attempts EXCEPT ![i].pc = "fetching"]
    /\ fetchCalls' = fetchCalls + 1
    /\ last' = [op |-> "encoded", a |-> i, settled |-> FALSE, writes |-> <<>>,
                plantData |-> NoPayload]
    /\ UNCHANGED <<GEMINI_API_KEY, selectedImage, imagePreview, plantInfo, loading,
                   error, fileInput, readers, encodeCalls>>

(* convertImageToBase64 rejects with the reader's error event (line 40),
   which has no message. *)
encodeFailed(i) ==
    /\ i \in 1..Len(attempts)
    /\ attempts[i].pc = "encoding"
    /\ Settle(View, attempts, i, "encodeFailed", Thrown(ReadErrorMsg, NoPayload))
    /\ UNCHANGED <<GEMINI_API_KEY, fileInput, readers, encodeCalls, fetchCalls>>

(* fetch completes or fails; the rest of identifyPlant runs. *)
fetchDone(i, response) ==
    /\ i \in 1..Len(attempts)
    /\ attempts[i].pc = "fetching"
    /\ Settle(View, attempts, i, "fetchDone", ResponseOutcome(response))
    /\ UNCHANGED <<GEMINI_API_KEY, fileInput, readers, encodeCalls, fetchCalls>>

Next ==
    \/ \E file \in Files \cup {NoFile} : handleImageUpload(file)
    \/ \E r \in 1..MaxAttempts, ok \in BOOLEAN : previewLoaded(r, ok)
    \/ retry
    \/ reset
    \/ \E i \in 1..MaxAttempts : encoded(i)
    \/ \E i \in 1..MaxAttempts : encodeFailed(i)
    \/ \E i \in 1..MaxAttempts, response \in Responses : fetchDone(i, response)

Spec == Init /\ [][Next]_vars

(* The file read and the HTTP call of every attempt complete or fail. *)
Fairness ==
    \A i \in 1..MaxAttempts :
        /\ WF_vars(encoded(i) \/ encodeFailed(i))
        /\ WF_vars(\E response \in Responses : fetchDone(i, response))

LiveSpec == Init /\ [][Next]_vars /\ Fairness

----------------------------------------------------------------------------
(* Properties *)

SomeInFlight == \E i \in 1..Len(attempts) : InFlight(i)

Wrote(setter) == \E k \in 1..Len(last.writes) : last.writes[k] = setter

LacksRequired(p) == ~Truthy(p.name) \/ ~Truthy(p.scientificName)

KeyAbsent == GEMINI_API_KEY = Undefined \/ GEMINI_API_KEY = ""

(* C1: in every reachable state at most one of the three outcome fields is
   set: loading, a non-null error, a non-null plantInfo. *)
C1_AtMostOneOutcome ==
    /\ ~(loading /\ error # NULL)
    /\ ~(loading /\ plantInfo # NULL)
    /\ ~(error # NULL /\ plantInfo # NULL)

(* C2: at most one identification attempt is in flight at any time. *)
C2_SingleAttemptInFlight ==
    Cardinality({i \in 1..Len(attempts) : InFlight(i)}) <= 1

(* C3: a held outcome comes from an attempt started for the currently
   selected image.  The completion of an attempt that a newer selection or a
   reset left behind changes neither error nor plantInfo, and with no image
   selected there is no result and no error. *)
C3_StaleCompletionIgnored ==
    /\ [](selectedImage = NULL => (error = NULL /\ plantInfo = NULL))
    /\ [][\A i \in 1..Len(attempts) :
             (attempts[i].stale /\ attempts[i].pc # "done" /\ attempts'[i].pc = "done")
                 => (error' = error /\ plantInfo' = plantInfo)]_vars

(* C4: resetUpload, applied in any reachable state, yields a state whose
   selectedImage, imagePreview, plantInfo and error are all null, and applying
   it again changes nothing; the state right after the reset button's handler
   is such a state. *)
C4_ResetReturnsToEmpty ==
    LET r == resetUpload(View)
    IN  /\ r.selectedImage = NULL
        /\ r.imagePreview = NULL
        /\ r.plantInfo = NULL
        /\ r.error = NULL
        /\ resetUpload(r) = r
        /\ last.op = "reset" =>
               /\ selectedImage = NULL
               /\ imagePreview = NULL
               /\ plantInfo = NULL
               /\ error = NULL

(* C4 witness: the reset button was pressed while an attempt was in flight
   (state Identifying). *)
C4_Witness == last.op = "reset" /\ loading /\ SomeInFlight

(* C5: with the API key absent or empty, no file is encoded for a request,
   no request is sent, no attempt stays in flight, no result is ever held,
   and every attempt started by a selection or a retry has ended, within the
   handler, with the configuration message as error and loading cleared. *)
C5_NoKeyNoNetwork ==
    KeyAbsent =>
        /\ fetchCalls = 0
        /\ encodeCalls = 0
        /\ ~SomeInFlight
        /\ plantInfo = NULL
        /\ last.op \in {"select", "retry"} =>
               /\ last.settled
               /\ error = <<FailPrefix>> \o ConfigMsg
               /\ ~loading

(* C5 witness: with the key empty, the Try Again button has just run an
   attempt. *)
C5_Witness == GEMINI_API_KEY = "" /\ last.op = "retry" /\ last.settled

(* C6: when the decoded completion carries a non-empty error field, the
   attempt ends with error equal to exactly that field (no prefix), loading
   cleared, and no write of plantInfo, whatever name and scientificName the
   payload carries. *)
C6_DomainErrorVerbatim ==
    (last.settled /\ Truthy(last.plantData.error)) =>
        /\ error = <<last.plantData.error>>
        /\ ~loading
        /\ ~Wrote("setPlantInfo")

(* C6 witness: an attempt settled on a payload carrying an error field
   together with name and scientificName. *)
C6_Witness ==
    /\ last.settled
    /\ Truthy(last.plantData.error)
    /\ Truthy(last.plantData.name)
    /\ Truthy(last.plantData.scientificName)

(* C7 as stated: a held result has name and scientificName non-empty, and
   every decoded payload lacking name or scientificName makes the attempt
   fail with the incomplete-data error. *)
C7_AnyIncompletePayloadFailsIncomplete ==
    /\ plantInfo # NULL => ~LacksRequired(plantInfo[1])
    /\ (last.settled /\ last.plantData.kind # "none" /\ LacksRequired(last.plantData))
           => error = <<FailPrefix>> \o IncompleteMsg

(* C7 as amended: a held result has name and scientificName non-empty; a
   decoded payload lacking either of them never becomes the result and its
   attempt ends with an error; that error is the incomplete-data error when
   the payload is not null and carries no non-empty error field. *)
C7_NoPartialResult ==
    /\ plantInfo # NULL => ~LacksRequired(plantInfo[1])
    /\ (last.settled /\ last.plantData.kind # "none" /\ LacksRequired(last.plantData))
           => /\ ~Wrote("setPlantInfo")
              /\ error # NULL
              /\ (last.plantData.kind = "object" /\ ~Truthy(last.plantData.error))
                     => error = <<FailPrefix>> \o IncompleteMsg

(* C7 witness: an attempt settled on a payload with a name and no
   scientificName. *)
C7_Witness ==
    /\ last.settled
    /\ last.plantData.kind = "object"
    /\ ~Truthy(last.plantData.error)
    /\ Truthy(last.plantData.name)
    /\ ~Truthy(last.plantData.scientificName)

(* C8, the state after an attempt settles: loading is false, the attempt
   called exactly one of setError and setPlantInfo, with a non-null value,
   and setLoading(false) last. *)
C8_SettledWroteOne ==
    last.settled =>
        /\ ~loading
        /\ Wrote("setError") # Wrote("setPlantInfo")
        /\ Wrote("setError") => error # NULL
        /\ Wrote("setPlantInfo") => plantInfo # NULL
        /\ last.writes # <<>>
        /\ last.writes[Len(last.writes)] = "setLoading"

(* C8: every attempt that starts eventually settles, given that its file
   read and its HTTP call complete or fail, and an attempt that settles has
   written exactly one of a result and an error and has cleared loading. *)
C8_EveryAttemptSettles ==
    /\ \A i \in 1..MaxAttempts : InFlight(i) ~> Settled(i)
    /\ []C8_SettledWroteOne

(* C8 witness: an attempt settled on the early return of the domain-error
   path, after its file read and its HTTP call. *)
C8_Witness == last.op = "fetchDone" /\ last.settled /\ Truthy(last.plantData.error)

(* C9: while an attempt is in flight, error and plantInfo are both null, and
   an attempt started by Try Again runs on the currently selected image. *)
C9_AttemptStartsClean ==
    /\ SomeInFlight => (error = NULL /\ plantInfo = NULL)
    /\ (last.op = "retry" /\ InFlight(last.a)) => attempts[last.a].file = selectedImage

(* C10: a non-null imagePreview is the data URI of the selected file, and
   there is a selected file whenever there is a preview. *)
C10_PreviewMatchesSelection ==
    imagePreview # NULL =>
        /\ selectedImage # NULL
        /\ imagePreview = DataURL(selectedImage[1])

====
